---- MODULE Spec2Model ----
(***************************************************************************)
(* Model of the chunking and hierarchical-summarization pipeline of         *)
(* src/summarizer.py (class PdfSummarizer).                                  *)
(*                                                                           *)
(* Text is a sequence of one-character strings.  The tokenizer and the       *)
(* transformers pipeline are external libraries; they are modelled by what   *)
(* a SentencePiece tokenizer and a seq2seq summarization pipeline do at the   *)
(* call sites of the source.                                                 *)
(***************************************************************************)
EXTENDS Integers, Sequences, FiniteSets, TLC

VARIABLES
    config,        \* self.config
    pc,            \* position of the object / of the running call
    error,         \* exception raised by __init__ ("none" when none)
    model_loaded,  \* from_pretrained has been called for this object
    stub,          \* behaviour of the external model behind self.pipe
                   \* ("unset" until the first call that can reach it)
    op,            \* the public/private method being executed
    text,          \* argument of the running call
    tokens,        \* _chunk_text: tokens
    start,         \* _chunk_text: start
    chunks,        \* _chunk_text: chunks / summarize_text: chunks
    windows,       \* history: the (start, end) pairs taken by the loop
    first_pass,    \* summarize_text: first_pass (before filtering)
    calls,         \* history: every invocation of self.pipe of this call
    result,        \* value returned by the running call
    ncalls,        \* number of summarize_text calls made on the object
    prev,          \* history: chunks, calls and result of the previous call
    pdf,           \* summarize_pdf_bytes: the document behind pdf_bytes
    raised,        \* exception that left the running call ("none" when none)
    current_config,\* server.py: global current_config
    summarizer,    \* server.py: global summarizer (index into instances)
    instances,     \* server.py: config of every PdfSummarizer built so far
    post,          \* server.py: the POST /api/config handler
    get,           \* server.py: the GET /api/config handler
    req,           \* server.py: the POST /api/summarize/text handler
    nposts,        \* number of POST /api/config requests received
    held           \* history: every value the global current_config has had

pipeVars == <<config, pc, error, model_loaded, stub, op, text, tokens, start,
              chunks, windows, first_pass, calls, result, ncalls, prev>>

pdfVars == <<pdf, raised>>

srvVars == <<current_config, summarizer, instances, post, get, req, nposts,
             held>>

vars == <<pipeVars, pdfVars, srvVars>>

----------------------------------------------------------------------------
\* Bounds of the model

MaxLen == 5        \* longest input text, in characters
MaxTok == 2        \* largest max_chunk_tokens / chunk_overlap_tokens drawn
MaxNeg == 1        \* most negative token setting drawn
MaxCalls == 2      \* summarize_text calls made on one object
MaxPages == 2      \* most pages of a PDF document
MaxPosts == 2      \* POST /api/config requests received by the server
MaxReads == 2      \* reads of self.config by one summarization request

\* summarizer.py:171  "if len(first_pass) > 4"
FanInThreshold == 4

----------------------------------------------------------------------------
\* Text

Space == " "
Newline == "\n"
Whitespace == {Space, Newline}
Latin == "a"
Persian == "p"       \* a character in U+0600..U+06FF
InputChars == {Space, Latin, Persian}

RECURSIVE SeqsUpTo(_, _)
SeqsUpTo(S, n) ==
    IF n = 0 THEN {<<>>}
    ELSE LET shorter == SeqsUpTo(S, n - 1)
         IN  shorter \cup {Append(s, c) : s \in {t \in shorter : Len(t) = n - 1}, c \in S}

Texts == SeqsUpTo(InputChars, MaxLen)

RECURSIVE lstrip(_)
lstrip(s) ==
    IF s = <<>> THEN <<>>
    ELSE IF Head(s) \in Whitespace THEN lstrip(Tail(s)) ELSE s

RECURSIVE rstrip(_)
rstrip(s) ==
    IF s = <<>> THEN <<>>
    ELSE IF s[Len(s)] \in Whitespace THEN rstrip(SubSeq(s, 1, Len(s) - 1)) ELSE s

\* str.strip()
strip(s) == rstrip(lstrip(s))

Min(a, b) == IF a <= b THEN a ELSE b
Max(a, b) == IF a >= b THEN a ELSE b

\* Python's seq[lo:hi] for lo >= 0 (a negative hi counts from the end)
Slice(s, lo, hi) ==
    LET n  == Len(s)
        h0 == IF hi < 0 THEN Max(hi + n, 0) ELSE Min(hi, n)
        l0 == Min(lo, n)
    IN  IF l0 < h0 THEN SubSeq(s, l0 + 1, h0) ELSE <<>>

\* sep.join(parts)
RECURSIVE join(_, _)
join(sep, parts) ==
    IF parts = <<>> THEN <<>>
    ELSE IF Len(parts) = 1 THEN parts[1]
    ELSE parts[1] \o sep \o join(sep, Tail(parts))

ParagraphSep == <<Newline, Newline>>

----------------------------------------------------------------------------
\* Tokenizer (SentencePiece): one piece per non-blank character; a piece that
\* follows whitespace, and the first piece of a text, carry the word marker.

Piece(c, marked) == [ch |-> c, mark |-> marked]

RECURSIVE EncodeFrom(_, _)
EncodeFrom(s, afterSpace) ==
    IF s = <<>> THEN <<>>
    ELSE IF Head(s) \in Whitespace THEN EncodeFrom(Tail(s), TRUE)
    ELSE <<Piece(Head(s), afterSpace)>> \o EncodeFrom(Tail(s), FALSE)

\* tokenizer.encode(text, add_special_tokens=False)
encode(s) == EncodeFrom(s, TRUE)

RECURSIVE DecodePieces(_)
DecodePieces(ids) ==
    IF ids = <<>> THEN <<>>
    ELSE (IF Head(ids).mark THEN <<Space, Head(ids).ch>> ELSE <<Head(ids).ch>>)
         \o DecodePieces(Tail(ids))

\* tokenizer.decode(ids, skip_special_tokens=True): the leading marker of the
\* sequence produces no space
decode(ids) ==
    LET raw == DecodePieces(ids)
    IN  IF raw # <<>> /\ Head(raw) = Space THEN Tail(raw) ELSE raw

----------------------------------------------------------------------------
\* Configuration (SummarizationConfig); temperature is kept in tenths

TokenSettings == (0 - MaxNeg) .. MaxTok
SummarySettings == {1, 2}
Temperatures == {0 - 1, 5, 21}

Configs ==
    [max_chunk_tokens : TokenSettings,
     chunk_overlap_tokens : TokenSettings,
     min_summary_tokens : SummarySettings,
     max_summary_tokens : SummarySettings,
     do_sample : BOOLEAN,
     temperature : Temperatures]


\* __init__, lines 33-38: the exception the validation raises ("none": accepted)
ConfigError_AcceptEqual(cfg) ==
    IF cfg.max_chunk_tokens < cfg.chunk_overlap_tokens THEN "ValueError"
    ELSE IF cfg.min_summary_tokens >= cfg.max_summary_tokens THEN "ValueError"
    ELSE IF cfg.temperature < 0 \/ cfg.temperature > 20 THEN "ValueError"
    ELSE "none"

ConfigError(cfg) ==
    IF cfg.max_chunk_tokens <= cfg.chunk_overlap_tokens THEN "ValueError"
    ELSE IF cfg.min_summary_tokens >= cfg.max_summary_tokens THEN "ValueError"
    ELSE IF cfg.temperature < 0 \/ cfg.temperature > 20 THEN "ValueError"
    ELSE "none"

----------------------------------------------------------------------------
\* The model behind self.pipe.  A stub is a deterministic behaviour of the
\* external model; with sampling the generated text of a successful call is
\* any text the model can generate for that input.

Stubs == {"echo", "blank", "nolist", "raise", "raise_on_persian", "raise_on_reduction"}

\* the part of a pipeline input after the prompt prefix
Body(input_text) == Tail(input_text)

\* generated summary that repeats the first character of the body
EchoText(input_text) == <<Space, Body(input_text)[1], Space>>
BlankText == <<Space>>

Outcome(k, t) == [kind |-> k, summary_text |-> t]

StubOutcome(s, input_text) ==
    CASE s = "echo"   -> Outcome("ok", EchoText(input_text))
      [] s = "blank"  -> Outcome("ok", BlankText)
      [] s = "nolist" -> Outcome("nolist", <<>>)
      [] s = "raise"  -> Outcome("raise", <<>>)
      [] s = "raise_on_persian" ->
            IF \E i \in 1..Len(Body(input_text)) : Body(input_text)[i] = Persian
            THEN Outcome("raise", <<>>)
            ELSE Outcome("ok", EchoText(input_text))
      [] s = "raise_on_reduction" ->
            IF Head(input_text) \in {"[hier_fa]", "[hier_en]"}
            THEN Outcome("raise", <<>>)
            ELSE Outcome("ok", EchoText(input_text))

\* line 140: do_sample=self.config.do_sample
SamplingFlag_AlwaysOn(cfg) == TRUE

SamplingFlag(cfg) == cfg.do_sample

\* self.pipe(input_text, do_sample=..., ...), lines 138-145
PipeOutcomes(cfg, s, input_text) ==
    LET d == StubOutcome(s, input_text)
    IN  IF SamplingFlag(cfg) /\ d.kind = "ok"
        THEN {Outcome("ok", EchoText(input_text)), Outcome("ok", BlankText)}
        ELSE {d}

\* _is_persian, lines 152-154
_is_persian_AllChars(t) == t # <<>> /\ \A i \in 1..Len(t) : t[i] = Persian

_is_persian(t) == \E i \in 1..Len(t) : t[i] = Persian

\* _summarize_chunk, lines 113-135: the prompt prefix and the pipeline input.
\* A template is kept as one marker character; it stands for the fixed text of
\* the template, which is at least one token long.
Prefix_AlwaysBase(chunk, is_hierarchical) ==
    IF _is_persian(chunk) THEN <<"[base_fa]">> ELSE <<"[base_en]">>

Prefix(chunk, is_hierarchical) ==
    IF _is_persian(chunk)
    THEN (IF is_hierarchical THEN <<"[hier_fa]">> ELSE <<"[base_fa]">>)
    ELSE (IF is_hierarchical THEN <<"[hier_en]">> ELSE <<"[base_en]">>)

InputText(chunk, is_hierarchical) == Prefix(chunk, is_hierarchical) \o strip(chunk)

\* _summarize_chunk, lines 146-149: the value returned for a pipeline outcome
SummaryOf_ErrorText(o) ==
    CASE o.kind = "ok"     -> strip(o.summary_text)
      [] o.kind = "nolist" -> <<>>
      [] o.kind = "raise"  -> <<"e">>

SummaryOf(o) ==
    CASE o.kind = "ok"     -> strip(o.summary_text)
      [] o.kind = "nolist" -> <<>>
      [] o.kind = "raise"  -> <<>>

\* one entry of the history of pipeline invocations
Call(chunk, is_hierarchical, o) ==
    [input_text |-> InputText(chunk, is_hierarchical),
     is_hierarchical |-> is_hierarchical,
     kind |-> o.kind,
     raw |-> o.summary_text,
     summary |-> SummaryOf(o)]

----------------------------------------------------------------------------
\* Pieces of summarize_text and _chunk_text

\* "if not text.strip()", lines 83, 109, 159
IsBlank(t) == strip(t) = <<>>

\* line 160: value returned for a blank text
BlankInputResult_ReturnText(t) == t

BlankInputResult(t) == <<>>

\* line 92: the single chunk of a short text
SingleChunk_Unstripped(t) == <<t>>

SingleChunk(t) == <<strip(t)>>

\* line 103: the start of the next window
NextStart_MinusChunkSize(end, cfg) == Max(0, end - cfg.max_chunk_tokens)

NextStart(end, cfg) == Max(0, end - cfg.chunk_overlap_tokens)

\* line 166: the comprehension takes the chunks in list order; fp holds the
\* summaries obtained so far
NextChunk_Reversed(cs, fp) == cs[Len(cs) - Len(fp)]

NextChunk(cs, fp) == cs[Len(fp) + 1]

\* line 167: first_pass = [s for s in first_pass if s.strip()]
FilterEmpty_KeepAll(ss) == ss

RECURSIVE FilterEmpty(_)
FilterEmpty(ss) ==
    IF ss = <<>> THEN <<>>
    ELSE IF IsBlank(Head(ss)) THEN FilterEmpty(Tail(ss))
    ELSE <<Head(ss)>> \o FilterEmpty(Tail(ss))

\* line 171
NeedsReduction_AtThreshold(fp) == Len(fp) >= FanInThreshold

NeedsReduction(fp) == Len(fp) > FanInThreshold

\* lines 174-176: the value returned after the reduction call
ReductionResult_Unchecked(hierarchical_summary, fp) == hierarchical_summary

ReductionResult(hierarchical_summary, fp) ==
    IF ~IsBlank(hierarchical_summary) THEN hierarchical_summary
    ELSE join(ParagraphSep, fp)

NoPrev == [op |-> "none", chunks |-> <<>>, calls |-> <<>>, result |-> <<>>]

NoPdf == [kind |-> "none", pages |-> <<>>]

\* SummarizationConfig(), lines 16-23
DefaultConfig ==
    [max_chunk_tokens |-> 512,
     chunk_overlap_tokens |-> 50,
     min_summary_tokens |-> 50,
     max_summary_tokens |-> 150,
     do_sample |-> TRUE,
     temperature |-> 5]

\* the JSON object {} (request.json of a POST /api/config without settings)
EmptyPayload == [f \in {} |-> 0]

\* the handlers of the server at rest
IdlePost == [pc |-> "idle", data |-> EmptyPayload, status |-> 0]
IdleGet == [pc |-> "idle", response |-> <<>>]
IdleReq == [pc |-> "idle", inst |-> 0, seen |-> <<>>]

\* server.py, lines 18-22, once the module is loaded
ServerInit ==
    /\ current_config = DefaultConfig
    /\ instances = <<DefaultConfig>>
    /\ summarizer = 1
    /\ post = IdlePost
    /\ get = IdleGet
    /\ req = IdleReq
    /\ nposts = 0
    /\ held = {DefaultConfig}


----------------------------------------------------------------------------
\* Initial state: an object about to be constructed with some configuration

ObjectInit ==
    /\ stub = "unset"
    /\ pc = "new"
    /\ error = "none"
    /\ model_loaded = FALSE
    /\ op = "none"
    /\ text = <<>>
    /\ tokens = <<>>
    /\ start = 0
    /\ chunks = <<>>
    /\ windows = <<>>
    /\ first_pass = <<>>
    /\ calls = <<>>
    /\ result = <<>>
    /\ ncalls = 0
    /\ prev = NoPrev
    /\ pdf = NoPdf
    /\ raised = "none"

Init ==
    /\ config \in Configs
    /\ ObjectInit
    /\ ServerInit

\* server.py, lines 18-19: the object is about to be constructed with the
\* default configuration
InitServer ==
    /\ config = DefaultConfig
    /\ ObjectInit
    /\ ServerInit

\* PdfSummarizer.__init__, lines 29-62: validation, then the model is loaded
\* (from_pretrained may fail, which raises RuntimeError)
Construct ==
    /\ pc = "new"
    /\ IF ConfigError(config) # "none"
       THEN /\ error' = ConfigError(config)
            /\ pc' = "failed"
            /\ model_loaded' = FALSE
       ELSE /\ model_loaded' = TRUE
            /\ \E loaded \in BOOLEAN :
                 IF loaded
                 THEN pc' = "ready" /\ error' = "none"
                 ELSE pc' = "failed" /\ error' = "RuntimeError"
    /\ UNCHANGED <<pdfVars, srvVars>>
    /\ UNCHANGED <<config, stub, op, text, tokens, start, chunks, windows,
                   first_pass, calls, result, ncalls, prev>>

\* the text of a call: any text for the first call on the object, the same
\* text again for a later one
CallTexts == IF ncalls = 0 THEN Texts ELSE {text}

\* _chunk_text returns cs: the caller continues (summarize_text, lines 162-164)
\* or, for a direct call, the call is over
ChunkerReturns(caller, cs) ==
    /\ chunks' = cs
    /\ IF caller = "summarize" /\ cs # <<>>
       THEN pc' = "first_pass"
       ELSE pc' = "done"

\* _chunk_text, lines 83-94, up to the loop
ChunkerEnter(caller, t) ==
    IF IsBlank(t)
    THEN /\ ChunkerReturns(caller, <<>>)
         /\ tokens' = <<>>
    ELSE /\ tokens' = encode(t)
         /\ IF Len(encode(t)) <= config.max_chunk_tokens
            THEN ChunkerReturns(caller, SingleChunk(t))
            ELSE chunks' = <<>> /\ pc' = "chunking"

\* a direct call of _chunk_text(t); a later call on the object repeats the first
ChunkText ==
    /\ pc = "ready"
    /\ ncalls < MaxCalls
    /\ op \in {"none", "chunk"}
    /\ \E t \in CallTexts :
         /\ text' = t
         /\ op' = "chunk"
         /\ ChunkerEnter("chunk", t)
    /\ ncalls' = ncalls + 1
    /\ start' = 0
    /\ windows' = <<>>
    /\ first_pass' = <<>>
    /\ calls' = <<>>
    /\ result' = <<>>
    /\ UNCHANGED <<pdfVars, srvVars>>
    /\ UNCHANGED <<config, error, model_loaded, stub, prev>>

\* the loaded model behaves the same way in every call on the object
StubChoices == IF stub = "unset" THEN Stubs ELSE {stub}

\* summarize_text(t), lines 157-162, into _chunk_text
SummarizeTextEnter(t) ==
    /\ text' = t
    /\ op' = "summarize"
    /\ IF IsBlank(t)
       THEN /\ pc' = "done"
            /\ result' = BlankInputResult(t)
            /\ tokens' = <<>>
            /\ chunks' = <<>>
       ELSE /\ ChunkerEnter("summarize", t)
            /\ result' = <<>>

\* a call of summarize_text(t)
SummarizeText ==
    /\ pc = "ready"
    /\ ncalls < MaxCalls
    /\ op \in {"none", "summarize"}
    /\ stub' \in StubChoices
    /\ \E t \in CallTexts : SummarizeTextEnter(t)
    /\ ncalls' = ncalls + 1
    /\ start' = 0
    /\ windows' = <<>>
    /\ first_pass' = <<>>
    /\ calls' = <<>>
    /\ UNCHANGED <<pdfVars, srvVars>>
    /\ UNCHANGED <<config, error, model_loaded, prev>>

----------------------------------------------------------------------------
\* PDF documents: what PdfReader finds behind the bytes.  A page is the value
\* of page.extract_text(): a text, or None for a page without a text layer.

Page(t) == [has_text |-> TRUE, text |-> t]
NonePage == [has_text |-> FALSE, text |-> <<>>]

PageValues ==
    {NonePage,
     Page(<<>>),
     Page(<<Space, Newline, Space>>),
     Page(<<Latin>>),
     Page(<<Space, Latin, Persian, Space, Newline, Newline, Latin, Space>>),
     Page(<<Persian, Latin, Persian>>)}

Documents ==
    {[kind |-> "corrupt", pages |-> <<>>]}
        \cup {[kind |-> "pages", pages |-> ps] : ps \in SeqsUpTo(PageValues, MaxPages)}

\* str.splitlines()
RECURSIVE SplitLines(_, _)
SplitLines(s, line) ==
    IF s = <<>> THEN (IF line = <<>> THEN <<>> ELSE <<line>>)
    ELSE IF Head(s) = Newline THEN <<line>> \o SplitLines(Tail(s), <<>>)
    ELSE SplitLines(Tail(s), Append(line, Head(s)))

splitlines(s) == SplitLines(s, <<>>)

\* line 76: "if line.strip()"
KeepLine_All(line) == TRUE

KeepLine(line) == strip(line) # <<>>

RECURSIVE StripLines(_)
StripLines(ls) ==
    IF ls = <<>> THEN <<>>
    ELSE IF KeepLine(Head(ls)) THEN <<strip(Head(ls))>> \o StripLines(Tail(ls))
    ELSE StripLines(Tail(ls))

\* line 73: page.extract_text() or ""
PageText(p) == IF p.has_text THEN p.text ELSE <<>>

\* extract_text_from_pdf_bytes, lines 69-76, for a readable document
ExtractText(pages) ==
    IF pages = <<>> THEN <<>>
    ELSE LET pages_text == [i \in 1..Len(pages) |-> PageText(pages[i])]
             joined     == join(ParagraphSep, pages_text)
         IN  join(<<Newline>>, StripLines(splitlines(joined)))

\* summarize_pdf_bytes(pdf_bytes), lines 178-182: the text is extracted (a
\* document that cannot be read raises ValueError, lines 77-78) and handed to
\* summarize_text
SummarizePdfBytes ==
    /\ pc = "ready"
    /\ ncalls = 0
    /\ \E d \in Documents :
         /\ pdf' = d
         /\ IF d.kind = "corrupt"
            THEN /\ raised' = "ValueError"
                 /\ pc' = "done"
                 /\ op' = "pdf"
                 /\ stub' = stub
                 /\ UNCHANGED <<text, tokens, chunks, result>>
            ELSE /\ raised' = "none"
                 /\ stub' \in StubChoices
                 /\ SummarizeTextEnter(ExtractText(d.pages))
    /\ ncalls' = ncalls + 1
    /\ start' = 0
    /\ windows' = <<>>
    /\ first_pass' = <<>>
    /\ calls' = <<>>
    /\ UNCHANGED srvVars
    /\ UNCHANGED <<config, error, model_loaded, prev>>

----------------------------------------------------------------------------
\* _chunk_text, lines 95-103: one iteration of the while loop
ChunkLoopStep ==
    /\ pc = "chunking"
    /\ start < Len(tokens)
    /\ LET end        == Min(start + config.max_chunk_tokens, Len(tokens))
           chunk_ids  == Slice(tokens, start, end)
           chunk_text == strip(decode(chunk_ids))
           appended   == IF chunk_text # <<>> THEN Append(chunks, chunk_text)
                                              ELSE chunks
       IN  /\ windows' = Append(windows, <<start, end>>)
           /\ IF end = Len(tokens)
              THEN /\ ChunkerReturns(op, appended)
                   /\ start' = start
              ELSE /\ chunks' = appended
                   /\ start' = NextStart(end, config)
                   /\ pc' = "chunking"
    /\ UNCHANGED <<pdfVars, srvVars>>
    /\ UNCHANGED <<config, error, model_loaded, stub, op, text, tokens,
                   first_pass, calls, result, ncalls, prev>>

\* _chunk_text, lines 95 and 104: the loop condition fails
ChunkLoopExit ==
    /\ pc = "chunking"
    /\ ~(start < Len(tokens))
    /\ ChunkerReturns(op, chunks)
    /\ UNCHANGED <<pdfVars, srvVars>>
    /\ UNCHANGED <<config, error, model_loaded, stub, op, text, tokens, start,
                   windows, first_pass, calls, result, ncalls, prev>>

\* line 166: _summarize_chunk(c) for the next chunk, lines 107-149
FirstPassStep ==
    /\ pc = "first_pass"
    /\ Len(first_pass) < Len(chunks)
    /\ LET c == NextChunk(chunks, first_pass)
       IN  IF IsBlank(c)
           THEN /\ first_pass' = Append(first_pass, <<>>)
                /\ calls' = calls
           ELSE \E o \in PipeOutcomes(config, stub, InputText(c, FALSE)) :
                  /\ first_pass' = Append(first_pass, SummaryOf(o))
                  /\ calls' = Append(calls, Call(c, FALSE, o))
    /\ pc' = IF Len(first_pass') = Len(chunks) THEN "collect" ELSE "first_pass"
    /\ UNCHANGED <<pdfVars, srvVars>>
    /\ UNCHANGED <<config, error, model_loaded, stub, op, text, tokens, start,
                   chunks, windows, result, ncalls, prev>>

\* lines 167-172: filter the empty summaries, return or go on to the reduction
Collect ==
    /\ pc = "collect"
    /\ LET fp == FilterEmpty(first_pass)
       IN  /\ first_pass' = fp
           /\ IF fp = <<>>
              THEN pc' = "done" /\ result' = <<>>
              ELSE IF NeedsReduction(fp)
              THEN pc' = "reduce" /\ result' = result
              ELSE pc' = "done" /\ result' = join(ParagraphSep, fp)
    /\ UNCHANGED <<pdfVars, srvVars>>
    /\ UNCHANGED <<config, error, model_loaded, stub, op, text, tokens, start,
                   chunks, windows, calls, ncalls, prev>>

\* lines 172-176: the reduction call and the value returned
Reduce ==
    /\ pc = "reduce"
    /\ LET joined == join(ParagraphSep, first_pass)
       IN  \E o \in PipeOutcomes(config, stub, InputText(joined, TRUE)) :
              /\ calls' = Append(calls, Call(joined, TRUE, o))
              /\ result' = ReductionResult(SummaryOf(o), first_pass)
    /\ pc' = "done"
    /\ UNCHANGED <<pdfVars, srvVars>>
    /\ UNCHANGED <<config, error, model_loaded, stub, op, text, tokens, start,
                   chunks, windows, first_pass, ncalls, prev>>

\* the call has returned: its locals are gone and the object is idle again.
\* The history of the call is kept for objects configured with sampling
\* disabled, where a repeated call can be compared with it.
Return ==
    /\ pc = "done"
    /\ pc' = "ready"
    /\ prev' = IF config.do_sample THEN NoPrev
               ELSE [op |-> op, chunks |-> chunks, calls |-> calls, result |-> result]
    /\ tokens' = <<>>
    /\ start' = 0
    /\ chunks' = <<>>
    /\ windows' = <<>>
    /\ first_pass' = <<>>
    /\ calls' = <<>>
    /\ result' = <<>>
    /\ UNCHANGED <<pdfVars, srvVars>>
    /\ UNCHANGED <<config, error, model_loaded, stub, op, text, ncalls>>

Next ==
    \/ Construct
    \/ ChunkText
    \/ SummarizeText
    \/ ChunkLoopStep
    \/ ChunkLoopExit
    \/ FirstPassStep
    \/ Collect
    \/ Reduce
    \/ Return

Spec == Init /\ [][Next]_vars


\* Documents: one call of summarize_pdf_bytes on each object
NextPdf ==
    \/ Construct
    \/ SummarizePdfBytes
    \/ ChunkLoopStep
    \/ ChunkLoopExit
    \/ FirstPassStep
    \/ Collect
    \/ Reduce
    \/ Return

PdfSpec == Init /\ [][NextPdf]_vars

\* The chunker alone: one direct call of _chunk_text on each object.  A running
\* call always continues, so the steps of the loop are weakly fair.
NextChunker ==
    \/ Construct
    \/ ChunkText
    \/ ChunkLoopStep
    \/ ChunkLoopExit

FairChunkerSpec ==
    Init /\ [][NextChunker]_vars /\ WF_vars(ChunkLoopStep \/ ChunkLoopExit)

----------------------------------------------------------------------------
\* The HTTP server (server.py).  Every request is handled on a thread of its
\* own, so the handlers interleave at each read and write of a global.  The
\* handlers run once the module is loaded, that is once the object of line 19
\* is constructed (pc = "ready").

\* the settings GET /api/config reports, in the order lines 131-136 read them
FieldsRead ==
    <<"max_chunk_tokens", "chunk_overlap_tokens", "min_summary_tokens",
      "max_summary_tokens", "do_sample", "temperature">>

Fields == {FieldsRead[i] : i \in 1..Len(FieldsRead)}

\* request.json of a POST /api/config: the settings to override
Payloads ==
    {EmptyPayload,
     [max_chunk_tokens |-> 1],
     [max_chunk_tokens |-> 900, chunk_overlap_tokens |-> 100],
     [do_sample |-> FALSE, temperature |-> 0],
     [bogus |-> 1]}

\* SummarizationConfig(**new_config), line 27: a keyword that is no field of
\* the dataclass raises TypeError, a field left out takes its default
PayloadAccepted(data) == DOMAIN data \subseteq Fields

ConfigFrom(data) ==
    [f \in Fields |-> IF f \in DOMAIN data THEN data[f] ELSE DefaultConfig[f]]

\* PdfSummarizer(cfg), lines 29-62: what the constructor can raise
ConstructOutcomes(cfg) ==
    IF ConfigError(cfg) # "none" THEN {ConfigError(cfg)}
    ELSE {"none", "RuntimeError"}

\* config(), lines 140-141: a POST /api/config arrives with its payload
PostBegin ==
    /\ pc = "ready"
    /\ post.pc = "idle"
    /\ nposts < MaxPosts
    /\ \E d \in Payloads : post' = [pc |-> "config", data |-> d, status |-> 0]
    /\ nposts' = nposts + 1
    /\ UNCHANGED <<current_config, summarizer, instances, get, req, held>>
    /\ UNCHANGED <<pipeVars, pdfVars>>

\* update_summarizer_config, line 27: current_config is assigned; a TypeError
\* goes to the handler's except clause (lines 144-145, status 500)
PostConfig ==
    /\ post.pc = "config"
    /\ IF PayloadAccepted(post.data)
       THEN /\ current_config' = ConfigFrom(post.data)
            /\ held' = held \cup {ConfigFrom(post.data)}
            /\ post' = [post EXCEPT !.pc = "construct"]
       ELSE /\ post' = [post EXCEPT !.pc = "idle", !.status = 500]
            /\ UNCHANGED <<current_config, held>>
    /\ UNCHANGED <<summarizer, instances, get, req, nposts>>
    /\ UNCHANGED <<pipeVars, pdfVars>>

\* update_summarizer_config, line 28: the new object is built from the global
\* current_config and, if the constructor returns, assigned to summarizer;
\* an exception goes to the handler's except clause (status 500)
PostConstruct ==
    /\ post.pc = "construct"
    /\ \E e \in ConstructOutcomes(current_config) :
         IF e = "none"
         THEN /\ instances' = Append(instances, current_config)
              /\ summarizer' = Len(instances) + 1
              /\ post' = [post EXCEPT !.pc = "idle", !.status = 200]
         ELSE /\ post' = [post EXCEPT !.pc = "idle", !.status = 500]
              /\ UNCHANGED <<summarizer, instances>>
    /\ UNCHANGED <<current_config, get, req, nposts, held>>
    /\ UNCHANGED <<pipeVars, pdfVars>>

\* config(), lines 128-129: a GET /api/config arrives
GetBegin ==
    /\ pc = "ready"
    /\ get.pc # "reading"
    /\ get' = [pc |-> "reading", response |-> <<>>]
    /\ UNCHANGED <<current_config, summarizer, instances, post, req, nposts,
                   held>>
    /\ UNCHANGED <<pipeVars, pdfVars>>

\* config(), lines 131-136: one evaluation of current_config.<field>, each a
\* read of the global; after the last one the response is returned
GetRead ==
    /\ get.pc = "reading"
    /\ LET n == Len(get.response) + 1
       IN  get' = [pc |-> IF n = Len(FieldsRead) THEN "done" ELSE "reading",
                   response |-> Append(get.response,
                                       current_config[FieldsRead[n]])]
    /\ UNCHANGED <<current_config, summarizer, instances, post, req, nposts,
                   held>>
    /\ UNCHANGED <<pipeVars, pdfVars>>

\* summarize_text(), line 61: the global summarizer is read once and its
\* method is called
ReqBegin ==
    /\ pc = "ready"
    /\ req.pc # "running"
    /\ req' = [pc |-> "running", inst |-> summarizer, seen |-> <<>>]
    /\ UNCHANGED <<current_config, summarizer, instances, post, get, nposts,
                   held>>
    /\ UNCHANGED <<pipeVars, pdfVars>>

\* the running call reads self.config (summarizer.py, lines 87-88 and 140-143)
ReqRead ==
    /\ req.pc = "running"
    /\ Len(req.seen) < MaxReads
    /\ req' = [req EXCEPT !.seen = Append(req.seen, instances[req.inst])]
    /\ UNCHANGED <<current_config, summarizer, instances, post, get, nposts,
                   held>>
    /\ UNCHANGED <<pipeVars, pdfVars>>

\* summarize_text(), lines 62-64: the response is returned
ReqReturn ==
    /\ req.pc = "running"
    /\ req' = [req EXCEPT !.pc = "done"]
    /\ UNCHANGED <<current_config, summarizer, instances, post, get, nposts,
                   held>>
    /\ UNCHANGED <<pipeVars, pdfVars>>

NextServer ==
    \/ Construct
    \/ PostBegin
    \/ PostConfig
    \/ PostConstruct
    \/ GetBegin
    \/ GetRead
    \/ ReqBegin
    \/ ReqRead
    \/ ReqReturn

ServerSpec == InitServer /\ [][NextServer]_vars

----------------------------------------------------------------------------
\* Vocabulary of the properties

\* a direct call of the chunker has returned
ChunkerDone == pc = "done" /\ op = "chunk"

\* summarize_text has returned
SummarizeDone == pc = "done" /\ op = "summarize"

AllWhitespace(t) == \A i \in 1..Len(t) : t[i] \in Whitespace

IsFirstPassCall(c) == ~c.is_hierarchical
IsReductionCall(c) == c.is_hierarchical
HasSummary(c) == c.summary # <<>>

FirstPassCalls == SelectSeq(calls, IsFirstPassCall)
ReductionCalls == SelectSeq(calls, IsReductionCall)

\* the non-empty first-pass summaries of the running call, in call order
NonEmptySummaries ==
    LET kept == SelectSeq(FirstPassCalls, HasSummary)
    IN  [i \in 1..Len(kept) |-> kept[i].summary]

----------------------------------------------------------------------------
\* C1: for a text of more than max_chunk_tokens tokens the windows taken by
\* the chunker are contiguous-with-overlap: the first starts at 0, each next
\* one starts at the end of the one before minus chunk_overlap_tokens, and the
\* last one ends at the token count N.  (Fails: with a negative overlap, which
\* the constructor accepts, the next start can pass N and the tail is dropped.)
C1_WindowsContiguous ==
    (ChunkerDone /\ Len(tokens) > config.max_chunk_tokens) =>
        /\ windows # <<>>
        /\ windows[1][1] = 0
        /\ \A i \in 1..(Len(windows) - 1) :
              windows[i + 1][1] = windows[i][2] - config.chunk_overlap_tokens
        /\ windows[Len(windows)][2] = Len(tokens)

\* C2 as stated: a text of at most max_chunk_tokens tokens yields exactly one
\* chunk, equal to the input text unchanged.
C2_SingleChunkUnchanged ==
    (ChunkerDone /\ Len(encode(text)) <= config.max_chunk_tokens) =>
        chunks = <<text>>

\* C2 amended: a text that is not blank and has at most max_chunk_tokens
\* tokens yields exactly one chunk, equal to the input text with its leading
\* and trailing whitespace removed.
C2_SingleChunkStripped ==
    (ChunkerDone /\ ~AllWhitespace(text)
        /\ Len(encode(text)) <= config.max_chunk_tokens) =>
        /\ Len(chunks) = 1
        /\ chunks[1] = strip(text)
        /\ windows = <<>>

C2_Witness ==
    /\ ChunkerDone
    /\ Len(encode(text)) <= config.max_chunk_tokens
    /\ text = <<Space, Latin, Space, Persian, Space>>
    /\ chunks = << <<Latin, Space, Persian>> >>

\* C3: every window [start, end) taken by the loop satisfies
\* 0 <= start < end <= N and end - start <= max_chunk_tokens.  (Fails: the
\* constructor accepts max_chunk_tokens <= 0, and then end <= start.)
C3_WindowBounds ==
    \A i \in 1..Len(windows) :
        /\ 0 <= windows[i][1]
        /\ windows[i][1] < windows[i][2]
        /\ windows[i][2] <= Len(tokens)
        /\ windows[i][2] - windows[i][1] <= config.max_chunk_tokens

\* C4: for every accepted configuration the start index strictly increases
\* from one iteration of the chunking loop to the next, and the loop ends.
C4_ChunkerTerminates ==
    /\ [][(pc = "chunking" /\ pc' = "chunking") => start' > start]_vars
    /\ []<>(pc # "chunking")

C4_Witness ==
    /\ ChunkerDone
    /\ Len(windows) >= 3
    /\ config.chunk_overlap_tokens > 0

\* C5: a configuration with max_chunk_tokens <= chunk_overlap_tokens or
\* min_summary_tokens >= max_summary_tokens makes construction raise before
\* the model is loaded, and no operation ever runs on the object.
C5_InvalidConfigFailsFast ==
    (pc # "new" /\ (\/ config.max_chunk_tokens <= config.chunk_overlap_tokens
                    \/ config.min_summary_tokens >= config.max_summary_tokens)) =>
        /\ pc = "failed"
        /\ error = "ValueError"
        /\ ~model_loaded
        /\ ncalls = 0
        /\ op = "none"
        /\ calls = <<>>

C5_Witness ==
    /\ pc = "failed"
    /\ error = "ValueError"
    /\ config.max_chunk_tokens = config.chunk_overlap_tokens
    /\ config.min_summary_tokens < config.max_summary_tokens
    /\ ~model_loaded

\* C6: summarize_text of the empty string or of a whitespace-only text
\* returns the empty string and never invokes the pipeline.
C6_BlankTextEmptySummary ==
    (op = "summarize" /\ AllWhitespace(text)) =>
        /\ calls = <<>>
        /\ pc = "done" => result = <<>>

C6_Witness ==
    /\ SummarizeDone
    /\ text = <<Space, Space>>
    /\ result = <<>>
    /\ calls = <<>>


\* C7 as stated: at most threshold chunks give the join of the per-chunk
\* summaries and no reduction call; more than threshold chunks give exactly
\* one reduction call, made on the join of the first-pass summaries.
C7_FanInByChunks ==
    SummarizeDone =>
        IF Len(chunks) <= FanInThreshold
        THEN /\ Len(ReductionCalls) = 0
             /\ result = join(ParagraphSep, NonEmptySummaries)
        ELSE /\ Len(ReductionCalls) = 1
             /\ Body(ReductionCalls[1].input_text) = join(ParagraphSep, NonEmptySummaries)

\* C7 amended: the threshold (4) is compared with the number of non-empty
\* first-pass summaries, not with the number of chunks: at most 4 of them
\* give their join and no reduction call; more than 4 give exactly one
\* reduction call, the last call made, on their join.
C7_FanInBySummaries ==
    SummarizeDone =>
        IF Len(NonEmptySummaries) <= FanInThreshold
        THEN /\ Len(ReductionCalls) = 0
             /\ result = join(ParagraphSep, NonEmptySummaries)
        ELSE /\ Len(ReductionCalls) = 1
             /\ calls[Len(calls)].is_hierarchical
             /\ Body(ReductionCalls[1].input_text) = join(ParagraphSep, NonEmptySummaries)

C7_Witness ==
    /\ SummarizeDone
    /\ Len(chunks) = FanInThreshold + 1
    /\ Len(NonEmptySummaries) = FanInThreshold + 1
    /\ Len(ReductionCalls) = 1

\* C8: when every per-chunk pipeline call raises, summarize_text returns
\* the empty string and makes no reduction call.
C8_AllChunksFailEmptyResult ==
    (SummarizeDone /\ chunks # <<>>
        /\ \A i \in 1..Len(FirstPassCalls) : FirstPassCalls[i].kind = "raise") =>
        /\ Len(FirstPassCalls) = Len(chunks)
        /\ result = <<>>
        /\ Len(ReductionCalls) = 0

C8_Witness ==
    /\ SummarizeDone
    /\ Len(chunks) > FanInThreshold
    /\ Len(FirstPassCalls) = Len(chunks)
    /\ \A i \in 1..Len(calls) : calls[i].kind = "raise"
    /\ result = <<>>

\* C9: after a reduction call, summarize_text returns the reduction summary
\* when it is not empty, and otherwise (empty summary, or the call raised) the
\* non-empty first-pass summaries joined with the paragraph separator in chunk
\* order.
C9_ReductionFallback ==
    (SummarizeDone /\ Len(ReductionCalls) > 0) =>
        LET h == ReductionCalls[1].summary
        IN  IF h # <<>>
            THEN result = h
            ELSE /\ result = join(ParagraphSep, NonEmptySummaries)
                 /\ result # <<>>

C9_Witness ==
    /\ SummarizeDone
    /\ Len(ReductionCalls) = 1
    /\ ReductionCalls[1].kind = "raise"
    /\ text = <<Latin, Persian, Latin, Latin, Persian>>
    /\ result = <<Latin, Newline, Newline, Persian, Newline, Newline, Latin,
                  Newline, Newline, Latin, Newline, Newline, Persian>>

\* C10: with sampling disabled, a repeated summarize_text call on the same
\* text and configuration produces the same chunks, makes the same pipeline
\* calls and returns the same result as the call before.
C10_Deterministic ==
    (SummarizeDone /\ prev.op = "summarize" /\ ~config.do_sample) =>
        /\ chunks = prev.chunks
        /\ calls = prev.calls
        /\ result = prev.result

C10_Witness ==
    /\ SummarizeDone
    /\ prev.op = "summarize"
    /\ ~config.do_sample
    /\ Len(calls) >= 2
    /\ result # <<>>
    /\ result = prev.result


----------------------------------------------------------------------------
\* Vocabulary of the properties on prefixes and joins

HasPersian(t) == \E i \in 1..Len(t) : t[i] = Persian
HasLatin(t) == \E i \in 1..Len(t) : t[i] = Latin
MixedScript(t) == HasPersian(t) /\ HasLatin(t)

\* the prompt template at the head of a pipeline input
PrefixOf(c) == Head(c.input_text)

KeptAfterTrim(c) == c.kind = "ok" /\ strip(c.raw) # <<>>

\* what the pipeline generated for the chunks, trimmed, without the failed
\* and the blank ones, in call order
TrimmedKept ==
    LET kept == SelectSeq(FirstPassCalls, KeptAfterTrim)
    IN  [i \in 1..Len(kept) |-> strip(kept[i].raw)]

\* C12 as stated: a chunk with both Persian-block characters and characters
\* of another script gets a default-family prefix.
C12_MixedScriptDefault ==
    \A i \in 1..Len(calls) :
        MixedScript(Body(calls[i].input_text)) =>
            PrefixOf(calls[i]) \in {"[base_en]", "[hier_en]"}

\* C12 amended: a chunk with both Persian-block characters and characters of
\* another script is classified as the Persian/Arabic family and gets a
\* Persian prefix.
C12_MixedScriptPersian ==
    \A i \in 1..Len(calls) :
        MixedScript(Body(calls[i].input_text)) =>
            PrefixOf(calls[i]) \in {"[base_fa]", "[hier_fa]"}

C12_Witness ==
    /\ calls # <<>>
    /\ Body(calls[1].input_text) = <<Latin, Space, Persian>>
    /\ PrefixOf(calls[1]) = "[base_fa]"

\* C13: the prefix of every pipeline input is the template fixed by two bits:
\* whether the text has a character of U+0600..U+06FF, and whether the call
\* is the second-pass call (the one after the calls for the chunks).
C13_PrefixByFamilyAndPass ==
    \A i \in 1..Len(calls) :
        LET persian  == HasPersian(Body(calls[i].input_text))
            reducing == i > Len(chunks)
        IN  PrefixOf(calls[i]) =
                CASE persian /\ reducing   -> "[hier_fa]"
                  [] persian /\ ~reducing  -> "[base_fa]"
                  [] ~persian /\ reducing  -> "[hier_en]"
                  [] ~persian /\ ~reducing -> "[base_en]"

C13_Witness ==
    /\ SummarizeDone
    /\ Len(calls) = Len(chunks) + 1
    /\ PrefixOf(calls[1]) = "[base_en]"
    /\ PrefixOf(calls[Len(chunks)]) = "[base_fa]"
    /\ PrefixOf(calls[Len(calls)]) = "[hier_fa]"

\* C15: within one summarize_text call the pipeline is invoked once per chunk,
\* in chunk order, one call at a time; the reduction call comes only after the
\* call for the last chunk has returned; n chunks give exactly n first-pass
\* calls and at most one reduction call.
C15_SequentialCalls ==
    op = "summarize" =>
        /\ Len(calls) <= Len(chunks) + 1
        /\ \A i \in 1..Len(calls) :
              IF i <= Len(chunks)
              THEN ~calls[i].is_hierarchical /\ Body(calls[i].input_text) = chunks[i]
              ELSE calls[i].is_hierarchical
        /\ pc = "first_pass" => Len(calls) = Len(first_pass)
        /\ pc \in {"collect", "reduce"} => Len(calls) = Len(chunks)
        /\ (pc = "done" /\ chunks # <<>>) =>
              /\ Len(FirstPassCalls) = Len(chunks)
              /\ Len(ReductionCalls) <= 1

C15_Witness ==
    /\ SummarizeDone
    /\ chunks = << <<Latin>>, <<Persian>>, <<Latin>>, <<Persian>>, <<Persian>> >>
    /\ Len(FirstPassCalls) = Len(chunks)
    /\ Len(ReductionCalls) = 1

\* C16: whichever chunks have an empty or failed first-pass summary, the
\* joined text (the result when there is no reduction call, the input of the
\* reduction call otherwise) is exactly the remaining summaries, each trimmed,
\* in chunk order, separated by a blank line.
C16_SkipAndContinue ==
    SummarizeDone =>
        IF ReductionCalls = <<>>
        THEN result = join(ParagraphSep, TrimmedKept)
        ELSE Body(ReductionCalls[1].input_text) = join(ParagraphSep, TrimmedKept)

C16_Witness ==
    /\ SummarizeDone
    /\ \E i \in 1..Len(calls) : calls[i].kind = "raise"
    /\ \E i \in 1..Len(calls) : calls[i].kind = "ok" /\ calls[i].summary = <<>>
    /\ Len(TrimmedKept) = 2
    /\ result = <<Latin, Newline, Newline, Latin>>

\* C17: for every accepted configuration and every text of more than
\* max_chunk_tokens tokens, every token index in [0, N) lies in a window; no
\* accepted configuration has chunk_overlap_tokens < 0 or max_chunk_tokens <= 0.
\* (Fails: the constructor accepts both.)
C17_WindowsCoverTokens ==
    /\ pc \notin {"new", "failed"} =>
          config.chunk_overlap_tokens >= 0 /\ config.max_chunk_tokens > 0
    /\ (ChunkerDone /\ Len(tokens) > config.max_chunk_tokens) =>
          \A k \in 0..(Len(tokens) - 1) :
              \E i \in 1..Len(windows) : windows[i][1] <= k /\ k < windows[i][2]

\* C19: every text handed to the pipeline (prefix + chunk, prefix + joined
\* summaries) has at most max_chunk_tokens tokens.  (Fails: a chunk may fill
\* max_chunk_tokens by itself and the prefix comes on top.)
C19_InputWithinChunkSize ==
    \A i \in 1..Len(calls) :
        Len(encode(calls[i].input_text)) <= config.max_chunk_tokens


\* C11: when the document has no pages, or only pages without extractable
\* text, summarize_pdf_bytes raises nothing, never invokes the pipeline and
\* returns ("", "").
NoExtractableText(p) == ~p.has_text \/ AllWhitespace(p.text)

C11_EmptyDocumentEmptyPair ==
    (pdf.kind = "pages"
        /\ \A i \in 1..Len(pdf.pages) : NoExtractableText(pdf.pages[i])) =>
        /\ raised = "none"
        /\ calls = <<>>
        /\ pc = "done" => (text = <<>> /\ result = <<>>)

C11_Witness ==
    /\ pc = "done"
    /\ pdf.kind = "pages"
    /\ pdf.pages = <<NonePage, Page(<<>>)>>
    /\ text = <<>>
    /\ result = <<>>
    /\ raised = "none"


\* C14: every request of the server observes one configuration from start to
\* finish: a summarization request reads the same configuration at each of
\* its steps, and the values a GET /api/config has read so far are the
\* settings of one configuration that current_config has held.
C14_RequestSeesOneConfig ==
    /\ \A i \in 1..Len(req.seen) : req.seen[i] = req.seen[1]
    /\ \E c \in held :
         \A i \in 1..Len(get.response) : get.response[i] = c[FieldsRead[i]]

\* C18: whenever no POST /api/config is being handled, the configuration
\* GET /api/config reports is the configuration of the object that serves
\* the summarization requests, also after a rejected update.
C18_ReportedIsServing ==
    post.pc = "idle" => current_config = instances[summarizer]

====
